---- MODULE Spec2Model ----
(***************************************************************************)
(* Model of module/train.py (class Trainer): the epoch loop train(), the   *)
(* training pass train_epoch(), the validation pass valid_epoch(), the     *)
(* loss computation get_losses() and print_epoch(); and of module/data.py  *)
(* (class Dataset, load_dataloader).                                       *)
(*                                                                         *)
(* A behaviour is one call of one of these entry points on a freshly       *)
(* constructed Trainer (or the construction and use of one Dataset).  The  *)
(* models, tokenizers, optimizers, schedulers and the GradScaler are       *)
(* collaborators: a call on one of them is recorded in the state.  Where   *)
(* the outcome of a line depends on what the caller hands over (the type   *)
(* of a batch field on line 114) both outcomes are steps of the model.     *)
(* A Python exception (an operand of the wrong type, a tensor without a    *)
(* graph, a name that does not exist, a key that is not in the dict, a     *)
(* division by zero, a file that cannot be opened) is not caught anywhere  *)
(* in the module, so it ends the call: pc = "raised", error = the          *)
(* exception and its line.                                                 *)
(***************************************************************************)
EXTENDS Integers, Sequences, FiniteSets

\* ---------------------------------------------------------------- bounds
MaxEpochs   == 2      \* config.n_epochs ranges over 0..MaxEpochs
MaxPatience == 2      \* config.patience ranges over 0..MaxPatience
MaxAccum    == 2      \* config.iters_to_accumulate ranges over 1..MaxAccum
MaxBatches  == 5      \* len(dataloader) ranges over 0..MaxBatches
MaxLoss     == 1      \* d_outs.loss of a batch ranges over 0..MaxLoss
MaxBatchSize == 2     \* len(uttr) of a batch ranges over 1..MaxBatchSize
MaxRecords  == 2      \* a data file holds 0..MaxRecords records
MaxSaves    == 2      \* save_ckpt is called directly at most MaxSaves times

\* float('inf'): larger than every loss a batch can produce
Inf == 1000000

VARIABLES
    config,             \* n_epochs, patience, early_stop, iters_to_accumulate
    train_dataloader,   \* len(self.train_dataloader)
    valid_dataloader,   \* len(self.valid_dataloader)
    g_model, d_model,   \* [training, grad]: mode flag, backward passes accumulated
    g_optimizer,        \* number of steps the generator's optimizer has taken
    d_optimizer,        \* number of steps the discriminator's optimizer has taken
    scaler,             \* number of GradScaler.update() calls
    g_scheduler,        \* the metrics the generator's scheduler was stepped with
    d_scheduler,        \* the metrics the discriminator's scheduler was stepped with
    g_ckpt, d_ckpt,     \* the epochs save_ckpt wrote to each checkpoint path
    record_path,        \* the record lists written to ckpt/train.json
    ckpt_dir,           \* whether the directory ckpt/ exists
    get_losses_calls,   \* one entry per get_losses call of a pass: the models'
                        \* modes and the losses returned
    entry,              \* the method called on the Trainer
    pc, error,          \* position in the code, the exception raised
    epoch, records, patience, g_best_loss, d_best_loss,       \* locals of train
    idx, tot_len, g_epoch_loss, d_epoch_loss, g_loss, d_loss, \* locals of a pass
    batch_size, d_ids, d_masks, d_labels, d_indice, d_outs,   \* locals of get_losses
    losses,             \* what get_losses returned: <<g_loss, d_loss>>
    record_dict,        \* the keys of the dict handed to print_epoch
    stdout,             \* the lines printed
    ds_config,          \* Dataset: mode, model_type, split, threshold
    json_file,          \* the records of the data file: each the set of its keys
    data,               \* Dataset.data
    shuffle,            \* the shuffle flag load_dataloader gives the DataLoader
    item                \* what Dataset.__getitem__ returned

trainer == <<g_model, d_model, g_optimizer, d_optimizer, scaler,
             g_scheduler, d_scheduler>>
files   == <<g_ckpt, d_ckpt, record_path, ckpt_dir>>
inputs  == <<config, train_dataloader, valid_dataloader, entry>>
train_locals == <<epoch, records, patience, g_best_loss, d_best_loss>>
pass_locals  == <<idx, tot_len, g_epoch_loss, d_epoch_loss, g_loss, d_loss>>
loss_locals  == <<batch_size, d_ids, d_masks, d_labels, d_indice, d_outs,
                  losses>>
console      == <<record_dict, stdout>>
dataset      == <<ds_config, json_file, data, shuffle, item>>
other_calls  == <<loss_locals, console, dataset>>
vars == <<trainer, files, inputs, get_losses_calls, pc, error,
          train_locals, pass_locals, other_calls>>

\* ------------------------------------------------------------- helpers
NoError == [type |-> "none", line |-> 0]

\* d_outs.loss, the discriminator's loss of one batch, in thousandths
Losses == 0..MaxLoss

\* g_loss / self.iters_to_accumulate: the quotient, kept exact; inf / n = inf
Div(l, n) == IF l >= Inf THEN [num |-> Inf, den |-> 1]
             ELSE [num |-> l, den |-> n]

\* round() works on the binary float nearest to total / n, so a quotient
\* that is q + 1/2 thousandths goes to q or to q + 1 as that float lies
\* below or above the half.  The runs <<a, b>> of q in 0..749 that go up
\* when n is 2 or 4 (the float of total / n is the same for both):
TiesUp2 ==
    {<<0, 3>>, <<8, 8>>, <<10, 10>>, <<12, 12>>, <<14, 14>>, <<16, 17>>,
     <<20, 20>>, <<23, 24>>, <<27, 28>>, <<31, 34>>, <<39, 42>>,
     <<47, 50>>, <<55, 58>>, <<63, 69>>, <<78, 85>>, <<94, 101>>,
     <<109, 116>>, <<125, 140>>, <<156, 171>>, <<187, 202>>, <<219, 233>>,
     <<250, 280>>, <<313, 343>>, <<375, 405>>, <<437, 468>>, <<563, 624>>,
     <<687, 749>>}

\* the runs of q in 0..249 that go up when n is 6
TiesUp6 ==
    {<<0, 0>>, <<2, 3>>, <<5, 5>>, <<10, 11>>, <<16, 16>>, <<20, 22>>,
     <<27, 28>>, <<31, 33>>, <<39, 46>>, <<55, 56>>, <<63, 67>>,
     <<78, 93>>, <<109, 114>>, <<125, 134>>, <<156, 166>>, <<187, 207>>,
     <<219, 249>>}

InRuns(q, runs) == \E run \in runs : run[1] <= q /\ q <= run[2]

\* round(total / n, 3) on losses counted in thousandths: inf stays inf, a
\* quotient off the half goes to the nearest thousandth, a quotient on the
\* half as the tables say (n in {2, 4} and q <= 749, n = 6 and q <= 249;
\* the operator has no value for a tie outside them)
Round3(total, n) ==
    LET q == total \div n
        r == total % n
    IN  CASE total >= Inf -> Inf
          [] total < Inf /\ 2 * r < n -> q
          [] total < Inf /\ 2 * r > n -> q + 1
          [] total < Inf /\ 2 * r = n /\ n \in {2, 4} /\ q <= 749 ->
                IF InRuns(q, TiesUp2) THEN q + 1 ELSE q
          [] total < Inf /\ 2 * r = n /\ n = 6 /\ q <= 249 ->
                IF InRuns(q, TiesUp6) THEN q + 1 ELSE q

\* an uncaught exception leaves the method
Raise(type, line) ==
    /\ pc' = "raised"
    /\ error' = [type |-> type, line |-> line]

\* ------------------------------------------------- get_losses helpers
\* line 114: the rows of tokenize(pred + resp): the B generated responses,
\* then the B ground-truth responses
Tokenize(b) ==
    [i \in 1..(2 * b) |-> IF i <= b THEN <<"pred", i>> ELSE <<"resp", i - b>>]

\* line 118: torch.cat((torch.zeros(batch_size), torch.ones(batch_size)))
Labels(b) == [i \in 1..(2 * b) |-> IF i <= b THEN 0 ELSE 1]

\* Randperm with the indices drawn independently (a randint in place of
\* the randperm): an index may repeat
RandpermRepeating(n) == [1..n -> 1..n]

\* line 119: what torch.randperm(n) can return, a permutation of the indices
Randperm(n) ==
    {p \in [1..n -> 1..n] : \A i, j \in 1..n : p[i] = p[j] => i = j}

\* lines 122-124: t[d_indice], row i of the result is row d_indice[i] of t
Index(t, indice) == [i \in 1..Len(indice) |-> t[indice[i]]]

\* line 132: -torch.log(count / batch_size) in thousandths; log(0) is -inf
NegLog(count, b) ==
    CASE count = 0         -> Inf
      [] count = b         -> 0
      [] 2 * count = b     -> 693
      [] 3 * count = b     -> 1099
      [] 3 * count = 2 * b -> 405
      [] 4 * count = b     -> 1386
      [] 4 * count = 3 * b -> 288

\* ------------------------------------------------ print_epoch helpers
\* lines 89-90: self.record_keys
record_keys == {"epoch", "g_train_loss", "g_valid_loss", "d_train_loss",
                "d_valid_loss", "g_lr", "d_lr", "epoch_time"}

\* lines 156-157: the keys train() reads from record_dict
train_reads == {"gen_valid_loss", "dis_valid_loss"}

\* lines 95-102: the keys each of the three print statements reads, in
\* order, each with the line of the f-string that reads it
print_reads ==
    <<<<[key |-> "epoch", line |-> 95],
        [key |-> "train_time", line |-> 96]>>,
      <<[key |-> "g_train_loss", line |-> 98],
        [key |-> "g_valid_loss", line |-> 99]>>,
      <<[key |-> "d_train_loss", line |-> 101],
        [key |-> "d_valid_loss", line |-> 102]>>>>

\* ---------------------------------------------------- Dataset helpers
\* a record of the data file, as the set of its keys: what Dataset reads,
\* what setup.py writes (lines 50-52: 'x' and 'y'), and records missing a key
RecordShapes == {{"uttr", "resp"}, {"uttr", "resp", "pred"}, {"x", "y"},
                 {"uttr"}, {"resp"}}

\* the sequences over S of length at most n
SeqsUpTo(S, n) == UNION {[1..k -> S] : k \in 0..n}

\* lines 30-35: the slice of the file that load_data returns
load_data(cfg, file) ==
    LET t == IF cfg.threshold < Len(file) THEN cfg.threshold ELSE Len(file)
    IN  IF cfg.mode = "pretrain" /\ cfg.split = "train"
        THEN SubSeq(file, 1, t)
        ELSE IF cfg.mode = "pretrain" /\ cfg.split = "valid"
             THEN SubSeq(file, t + 1, Len(file))
             ELSE file

\* lines 43-52: the keys __getitem__ reads, in order, each with its line
getitem_reads(cfg) ==
    IF cfg.mode = "pretrain" /\ cfg.model_type = "discriminator"
    THEN <<[key |-> "uttr", line |-> 44], [key |-> "resp", line |-> 45],
           [key |-> "pred", line |-> 46]>>
    ELSE <<[key |-> "uttr", line |-> 50], [key |-> "resp", line |-> 51]>>

\* the state of the entry points that a call does not use
NoLossLocals == batch_size = 0
NoRecordDict == record_dict = {}
NoDataset ==
    /\ ds_config = [mode |-> "train", model_type |-> "generator",
                    split |-> "train", threshold |-> 0]
    /\ json_file = <<>>
NoTrainer ==
    /\ config = [n_epochs |-> 0, patience |-> 0, early_stop |-> FALSE,
                 iters_to_accumulate |-> 1]
    /\ train_dataloader = 0
    /\ valid_dataloader = 0
    /\ g_model = [training |-> TRUE, grad |-> 0]
    /\ d_model = [training |-> TRUE, grad |-> 0]
    /\ ckpt_dir = TRUE

\* ---------------------------------------------------------------- Init
\* TrainerBase.__init__ and Trainer.__init__: the configuration is copied,
\* fresh optimizers, schedulers and scaler are built, nothing is written.
Init ==
    /\ \/ /\ entry \in {"train", "train_epoch", "valid_epoch"}
          /\ config \in [n_epochs : 0..MaxEpochs,
                         patience : 0..MaxPatience,
                         early_stop : BOOLEAN,
                         iters_to_accumulate : 1..MaxAccum]
          /\ train_dataloader \in 0..MaxBatches
          /\ valid_dataloader \in 0..MaxBatches
          /\ g_model \in [training : BOOLEAN, grad : {0}]
          /\ d_model \in [training : BOOLEAN, grad : {0}]
          /\ ckpt_dir \in (IF entry = "train" THEN BOOLEAN ELSE {TRUE})
          /\ NoLossLocals /\ NoRecordDict /\ NoDataset
       \/ /\ entry = "save_ckpt"
          /\ NoTrainer /\ NoLossLocals /\ NoRecordDict /\ NoDataset
       \/ /\ entry = "get_losses"
          /\ batch_size \in 1..MaxBatchSize
          /\ NoTrainer /\ NoRecordDict /\ NoDataset
       \/ /\ entry = "print_epoch"
          /\ record_dict \in SUBSET (record_keys \cup {"train_time"})
          /\ NoTrainer /\ NoLossLocals /\ NoDataset
       \/ /\ entry = "load_dataloader"
          /\ ds_config \in [mode : {"train", "pretrain"},
                            model_type : {"generator", "discriminator"},
                            split : {"train", "valid"},
                            threshold : 0..MaxRecords]
          /\ json_file \in SeqsUpTo(RecordShapes, MaxRecords)
          /\ NoTrainer /\ NoLossLocals /\ NoRecordDict
    /\ d_ids = <<>>
    /\ d_masks = <<>>
    /\ d_labels = <<>>
    /\ d_indice = <<>>
    /\ d_outs = [above |-> {}, loss |-> 0]
    /\ losses = <<0, 0>>
    /\ stdout = <<>>
    /\ data = <<>>
    /\ shuffle = TRUE
    /\ item = <<>>
    /\ g_optimizer = 0
    /\ d_optimizer = 0
    /\ scaler = 0
    /\ g_scheduler = <<>>
    /\ d_scheduler = <<>>
    /\ g_ckpt = <<>>
    /\ d_ckpt = <<>>
    /\ record_path = <<>>
    /\ get_losses_calls = <<>>
    /\ pc = "idle"
    /\ error = NoError
    /\ epoch = 0
    /\ records = <<>>
    /\ patience = 0
    /\ g_best_loss = Inf
    /\ d_best_loss = Inf
    /\ idx = 0
    /\ tot_len = 0
    /\ g_epoch_loss = 0
    /\ d_epoch_loss = 0
    /\ g_loss = Div(0, 1)
    /\ d_loss = Div(0, 1)

\* ------------------------------------------------------------- train()
\* lines 139-141: records = [], patience = self.patience, best losses = inf
train ==
    /\ pc = "idle"
    /\ entry = "train"
    /\ records' = <<>>
    /\ patience' = config.patience
    /\ g_best_loss' = Inf
    /\ d_best_loss' = Inf
    /\ pc' = "train_for"
    /\ UNCHANGED other_calls
    /\ UNCHANGED <<trainer, files, inputs, get_losses_calls, error, epoch,
                   pass_locals>>

\* line 143: for epoch in range(1, self.n_epochs + 1), the next epoch;
\* line 146 starts with the call of train_epoch
train_for_next ==
    /\ pc = "train_for"
    /\ epoch < config.n_epochs
    /\ epoch' = epoch + 1
    /\ pc' = "train_epoch"
    /\ UNCHANGED other_calls
    /\ UNCHANGED <<trainer, files, inputs, get_losses_calls, error, records,
                   patience, g_best_loss, d_best_loss, pass_locals>>

\* line 143: the range is exhausted, control reaches line 188
train_for_exit ==
    /\ pc = "train_for"
    /\ epoch >= config.n_epochs
    /\ pc' = "train_dump"
    /\ UNCHANGED other_calls
    /\ UNCHANGED <<trainer, files, inputs, get_losses_calls, error,
                   train_locals, pass_locals>>

\* lines 188-189: open(self.record_path, 'w') and json.dump(records); the
\* open raises FileNotFoundError when the directory ckpt/ does not exist
train_dump ==
    /\ pc = "train_dump"
    /\ IF ckpt_dir
       THEN /\ record_path' = Append(record_path, records)
            /\ pc' = "done"
            /\ error' = error
       ELSE /\ Raise("FileNotFoundError", 188)
            /\ record_path' = record_path
    /\ UNCHANGED other_calls
    /\ UNCHANGED <<trainer, g_ckpt, d_ckpt, ckpt_dir, inputs,
                   get_losses_calls, train_locals, pass_locals>>

\* ---------------------------------------------------------- save_ckpt()
\* lines 55-59: torch.save of the epoch and the two state dicts to the
\* path `ckpt`; the method is public and is called here with either of the
\* Trainer's two checkpoint paths
save_ckpt ==
    /\ pc = "idle"
    /\ entry = "save_ckpt"
    /\ Len(g_ckpt) + Len(d_ckpt) < MaxSaves
    /\ \E e \in 1..MaxEpochs, ckpt \in {"g_ckpt", "d_ckpt"} :
          IF ckpt = "g_ckpt"
          THEN /\ g_ckpt' = Append(g_ckpt, e)
               /\ d_ckpt' = d_ckpt
          ELSE /\ d_ckpt' = Append(d_ckpt, e)
               /\ g_ckpt' = g_ckpt
    /\ UNCHANGED other_calls
    /\ UNCHANGED <<trainer, record_path, ckpt_dir, inputs, get_losses_calls,
                   pc, error, train_locals, pass_locals>>

\* ------------------------------------------------------- train_epoch()
\* lines 194-198: zero the sums, take the length, both models to train mode
train_epoch ==
    /\ \/ pc = "train_epoch"
       \/ pc = "idle" /\ entry = "train_epoch"
    /\ g_epoch_loss' = 0
    /\ d_epoch_loss' = 0
    /\ tot_len' = train_dataloader
    /\ idx' = 0
    /\ g_model' = [g_model EXCEPT !.training = TRUE]
    /\ d_model' = [d_model EXCEPT !.training = TRUE]
    /\ pc' = "te_for"
    /\ UNCHANGED other_calls
    /\ UNCHANGED <<g_optimizer, d_optimizer, scaler, g_scheduler, d_scheduler,
                   files, inputs, get_losses_calls, error, train_locals,
                   g_loss, d_loss>>

\* lines 201-207: the next batch, idx += 1, get_losses(batch), both losses
\* divided by iters_to_accumulate.  In get_losses, pred + resp (line 114)
\* is list + list when the batch holds its responses as a list, and raises
\* TypeError when it holds them as a tuple, which is how the DataLoader of
\* data.py collates the strings of __getitem__.  Otherwise the generator's
\* loss is -log(k / B) for the B pairs of the batch and the k of them that
\* scored above 0.5 (line 132).
te_for_next ==
    /\ pc = "te_for"
    /\ idx < tot_len
    /\ idx' = idx + 1
    /\ \E resp \in {"list", "tuple"} :
          IF resp = "tuple"
          THEN /\ Raise("TypeError", 114)
               /\ UNCHANGED <<g_loss, d_loss, get_losses_calls>>
          ELSE /\ \E b \in 1..MaxBatchSize, k \in 0..MaxBatchSize,
                     dl \in Losses :
                      /\ k <= b
                      /\ g_loss' = Div(NegLog(k, b), config.iters_to_accumulate)
                      /\ d_loss' = Div(dl, config.iters_to_accumulate)
                      /\ get_losses_calls' =
                            Append(get_losses_calls,
                                   [caller |-> "train_epoch",
                                    g_training |-> g_model.training,
                                    d_training |-> d_model.training,
                                    g_loss |-> NegLog(k, b),
                                    d_loss |-> dl])
               /\ pc' = "te_backward"
               /\ error' = error
    /\ UNCHANGED other_calls
    /\ UNCHANGED <<trainer, files, inputs, train_locals, tot_len,
                   g_epoch_loss, d_epoch_loss>>

\* line 209: self.scaler.scale(g_loss).backward().  g_loss is built from
\* the comparison of line 131 (logit > 0.5, a bool tensor), its sum and a
\* log (line 132), through which autograd records no graph: backward() of
\* a tensor that has no grad_fn raises RuntimeError, before any gradient is
\* accumulated and before the group boundary of line 213 is tested.  The
\* block of lines 214-228 and the sums of lines 230-231 are never reached.
te_backward ==
    /\ pc = "te_backward"
    /\ Raise("RuntimeError", 209)
    /\ UNCHANGED other_calls
    /\ UNCHANGED <<trainer, files, inputs, get_losses_calls, train_locals,
                   pass_locals>>

\* lines 233-236: the loop is exhausted; round(sum / tot_len, 3), return
te_for_exit ==
    /\ pc = "te_for"
    /\ idx >= tot_len
    /\ IF tot_len = 0
       THEN /\ Raise("ZeroDivisionError", 233)
            /\ UNCHANGED <<g_epoch_loss, d_epoch_loss>>
       ELSE /\ g_epoch_loss' = Round3(g_epoch_loss, tot_len)
            /\ d_epoch_loss' = Round3(d_epoch_loss, tot_len)
            /\ pc' = "te_return"
            /\ error' = error
    /\ UNCHANGED other_calls
    /\ UNCHANGED <<trainer, files, inputs, get_losses_calls, train_locals,
                   idx, tot_len, g_loss, d_loss>>

\* ------------------------------------------------------- valid_epoch()
\* lines 241-245: zero the sums, take the length, both models to eval mode
valid_epoch ==
    /\ pc = "idle"
    /\ entry = "valid_epoch"
    /\ g_epoch_loss' = 0
    /\ d_epoch_loss' = 0
    /\ tot_len' = valid_dataloader
    /\ idx' = 0
    /\ g_model' = [g_model EXCEPT !.training = FALSE]
    /\ d_model' = [d_model EXCEPT !.training = FALSE]
    /\ pc' = "ve_for"
    /\ UNCHANGED other_calls
    /\ UNCHANGED <<g_optimizer, d_optimizer, scaler, g_scheduler, d_scheduler,
                   files, inputs, get_losses_calls, error, train_locals,
                   g_loss, d_loss>>

\* line 248: the next validation batch
ve_for_next ==
    /\ pc = "ve_for"
    /\ idx < tot_len
    /\ idx' = idx + 1
    /\ pc' = "ve_update_inputs"
    /\ UNCHANGED other_calls
    /\ UNCHANGED <<trainer, files, inputs, get_losses_calls, error,
                   train_locals, tot_len, g_epoch_loss, d_epoch_loss,
                   g_loss, d_loss>>

\* line 249: self.update_inputs is not defined in Trainer or TrainerBase:
\* AttributeError before get_losses is called
ve_update_inputs ==
    /\ pc = "ve_update_inputs"
    /\ Raise("AttributeError", 249)
    /\ UNCHANGED other_calls
    /\ UNCHANGED <<trainer, files, inputs, get_losses_calls, train_locals,
                   pass_locals>>

\* lines 255-258: the loop is exhausted; round(sum / tot_len, 3), return
ve_for_exit ==
    /\ pc = "ve_for"
    /\ idx >= tot_len
    /\ IF tot_len = 0
       THEN /\ Raise("ZeroDivisionError", 255)
            /\ UNCHANGED <<g_epoch_loss, d_epoch_loss>>
       ELSE /\ g_epoch_loss' = Round3(g_epoch_loss, tot_len)
            /\ d_epoch_loss' = Round3(d_epoch_loss, tot_len)
            /\ pc' = "ve_return"
            /\ error' = error
    /\ UNCHANGED other_calls
    /\ UNCHANGED <<trainer, files, inputs, get_losses_calls, train_locals,
                   idx, tot_len, g_loss, d_loss>>

\* -------------------------------------------------------- get_losses()
\* lines 107-119: the batch size, the generated responses, the rows of
\* pred + resp, the labels, and the permutation drawn by randperm.  pred is
\* a list (batch_decode, line 50): with the responses of the batch in a
\* tuple, pred + resp raises TypeError on line 114
get_losses ==
    /\ pc = "idle"
    /\ entry = "get_losses"
    /\ \E resp \in {"list", "tuple"} :
          IF resp = "tuple"
          THEN /\ Raise("TypeError", 114)
               /\ UNCHANGED <<d_ids, d_masks, d_labels, d_indice>>
          ELSE /\ d_ids' = Tokenize(batch_size)
               /\ d_masks' = Tokenize(batch_size)
               /\ d_labels' = Labels(batch_size)
               /\ d_indice' \in Randperm(batch_size * 2)
               /\ pc' = "gl_shuffle"
               /\ error' = error
    /\ UNCHANGED <<trainer, files, inputs, get_losses_calls,
                   train_locals, pass_locals, batch_size, d_outs, losses,
                   console, dataset>>

\* lines 122-124: ids, masks and labels are indexed with d_indice
gl_shuffle ==
    /\ pc = "gl_shuffle"
    /\ d_ids' = Index(d_ids, d_indice)
    /\ d_masks' = Index(d_masks, d_indice)
    /\ d_labels' = Index(d_labels, d_indice)
    /\ pc' = "gl_forward"
    /\ UNCHANGED <<trainer, files, inputs, get_losses_calls, error,
                   train_locals, pass_locals, batch_size, d_indice, d_outs,
                   losses, console, dataset>>

\* lines 126-134: the discriminator scores the 2B rows (the rows whose logit
\* is above 0.5, and its loss); pos counts the rows labelled 1 whose logit
\* is above 0.5; g_loss = -log(pos.sum() / batch_size); both are returned
gl_forward ==
    /\ pc = "gl_forward"
    /\ \E above \in SUBSET (1..(2 * batch_size)), dl \in Losses :
          LET pos == {i \in 1..(2 * batch_size) :
                        d_labels[i] = 1 /\ i \in above}
          IN  /\ d_outs' = [above |-> above, loss |-> dl]
              /\ losses' = <<NegLog(Cardinality(pos), batch_size), dl>>
    /\ pc' = "gl_return"
    /\ UNCHANGED <<trainer, files, inputs, get_losses_calls, error,
                   train_locals, pass_locals, batch_size, d_ids, d_masks,
                   d_labels, d_indice, console, dataset>>

\* ------------------------------------------------------- print_epoch()
\* statement k of print_epoch (lines 95-96, 98-99, 101-102): the f-strings
\* read their keys from record_dict in order, the first missing key raises
\* KeyError at its own line before anything of that statement is printed
print_statement(k, next_pc) ==
    /\ LET reads == print_reads[k]
           missing == {i \in 1..Len(reads) : reads[i].key \notin record_dict}
       IN  IF missing = {}
           THEN /\ stdout' = Append(stdout, k)
                /\ pc' = next_pc
                /\ error' = error
           ELSE /\ Raise("KeyError",
                         reads[CHOOSE i \in missing :
                                  \A m \in missing : i <= m].line)
                /\ stdout' = stdout
    /\ UNCHANGED <<trainer, files, inputs, get_losses_calls, train_locals,
                   pass_locals, loss_locals, record_dict, dataset>>

\* lines 95-96: Epoch {epoch}/{n_epochs} | Time: {train_time}
print_epoch ==
    /\ pc = "idle"
    /\ entry = "print_epoch"
    /\ print_statement(1, "pe_generator")

\* lines 98-99: the generator's train and valid loss
pe_generator ==
    /\ pc = "pe_generator"
    /\ print_statement(2, "pe_discriminator")

\* lines 101-102: the discriminator's train and valid loss
pe_discriminator ==
    /\ pc = "pe_discriminator"
    /\ print_statement(3, "pe_return")

\* ------------------------------------------------------ module/data.py
\* load_dataloader (lines 57-68) constructs the Dataset (lines 7-35):
\* load_data reads the file and slices it, no record is looked into;
\* shuffle is True only when config.mode is empty
load_dataloader ==
    /\ pc = "idle"
    /\ entry = "load_dataloader"
    /\ shuffle' = (ds_config.mode = "")
    /\ data' = load_data(ds_config, json_file)
    /\ pc' = "dataloader"
    /\ UNCHANGED <<trainer, files, inputs, get_losses_calls, error,
                   train_locals, pass_locals, loss_locals, console,
                   ds_config, json_file, item>>

\* Dataset.__getitem__ (lines 42-52), called by the DataLoader for an index
\* of the dataset when a pass iterates it: the first key the record lacks
\* raises KeyError, otherwise the tuple of the fields is returned
getitem ==
    /\ pc = "dataloader"
    /\ \E i \in 1..Len(data) :
          LET reads == getitem_reads(ds_config)
              missing == {k \in 1..Len(reads) : reads[k].key \notin data[i]}
          IN  IF missing = {}
              THEN /\ item' = [k \in 1..Len(reads) |-> reads[k].key]
                   /\ UNCHANGED <<pc, error>>
              ELSE /\ Raise("KeyError",
                            reads[CHOOSE k \in missing :
                                     \A m \in missing : k <= m].line)
                   /\ item' = item
    /\ UNCHANGED <<trainer, files, inputs, get_losses_calls, train_locals,
                   pass_locals, loss_locals, console, ds_config, json_file,
                   data, shuffle>>

\* ---------------------------------------------------------------- Next
Next ==
    \/ train
    \/ train_for_next
    \/ train_for_exit
    \/ train_dump
    \/ save_ckpt
    \/ train_epoch
    \/ te_for_next
    \/ te_backward
    \/ te_for_exit
    \/ valid_epoch
    \/ ve_for_next
    \/ ve_update_inputs
    \/ ve_for_exit
    \/ get_losses
    \/ gl_shuffle
    \/ gl_forward
    \/ print_epoch
    \/ pe_generator
    \/ pe_discriminator
    \/ load_dataloader
    \/ getitem

Spec == Init /\ [][Next]_vars

\* ----------------------------------------------------- reading the state
\* the call of train() has ended: it returned, or an exception left it
SessionOver == entry = "train" /\ pc \in {"done", "raised"}

\* the same, of a session started where the directory ckpt/ exists, so that
\* line 188 can open ckpt/train.json
SessionOverInDir == SessionOver /\ ckpt_dir

\* the lines of train_epoch (193-236) and of the get_losses it calls (106-134)
PassLines == (106..134) \cup (193..236)

\* a pass of train_epoch has ended: it returned, or raised at one of its lines
TrainEpochOver ==
    \/ pc = "te_return"
    \/ /\ entry \in {"train", "train_epoch"}
       /\ pc = "raised"
       /\ error.line \in PassLines

\* the call of valid_epoch has ended
ValidEpochOver == entry = "valid_epoch" /\ pc \in {"ve_return", "raised"}

\* the passes of train_epoch started so far
Passes == IF entry = "train" THEN epoch ELSE 1

Range(s) == {s[i] : i \in 1..Len(s)}

Ceil(t, n) == (t + n - 1) \div n

\* the least loss under `key` in the records of epochs 1..k-1, inf if none
BestBefore(key, k) ==
    LET earlier == {records[j][key] : j \in 1..(k - 1)}
    IN  IF earlier = {} THEN Inf
        ELSE CHOOSE m \in earlier : \A x \in earlier : m <= x

\* epoch k's loss under `key` is <= the best of the epochs before it
Improved(key, k) == records[k][key] <= BestBefore(key, k)

\* the number of consecutive epochs ending with epoch k in which the
\* generator's validation loss was strictly greater than its best so far
RECURSIVE TrailingWorse(_)
TrailingWorse(k) ==
    IF k = 0 \/ Improved("g_valid_loss", k) THEN 0
    ELSE 1 + TrailingWorse(k - 1)

\* No pass returns: train_epoch raises at line 114, 209 or 233
\* and valid_epoch at line 249 or 255, whatever the configuration and the
\* batches, so train() never gets past the calls on line 146.
NoPassReturns == pc \notin {"te_return", "ve_return"}

\* ------------------------------------------------------------- claims

\* C1: with early stopping enabled, once the remaining patience is zero no
\* further epoch executes, and when the session has ended the record list
\* has been written with exactly one row per epoch executed.
C1_EarlyStopRecords ==
    /\ (entry = "train" /\ pc # "idle" /\ config.early_stop
          /\ config.patience >= 1 /\ patience = 0)
       => pc \in {"train_dump", "done"}
    /\ (SessionOverInDir /\ config.early_stop)
       => /\ Len(record_path) = 1
          /\ Len(record_path[1]) = epoch

\* C2: save_ckpt writes a model's checkpoint at epoch k only when that
\* model's validation loss at epoch k is <= its best over epochs 1..k-1, and
\* since the best starts at inf, epoch 1 checkpoints both models.
C2_CheckpointMonotone ==
    /\ entry = "train"
       => /\ \A i \in 1..Len(g_ckpt) :
                /\ g_ckpt[i] \in 1..Len(records)
                /\ Improved("g_valid_loss", g_ckpt[i])
          /\ \A i \in 1..Len(d_ckpt) :
                /\ d_ckpt[i] \in 1..Len(records)
                /\ Improved("d_valid_loss", d_ckpt[i])
    /\ (SessionOverInDir /\ config.n_epochs >= 1)
       => /\ 1 \in Range(g_ckpt)
          /\ 1 \in Range(d_ckpt)

\* C3: a pass of train_epoch over T >= 1 batches with accumulation factor N
\* ends with ceil(T/N) optimizer steps taken by each model in that pass and
\* with both models' gradients zero.
C3_OneStepPerGroup ==
    (TrainEpochOver /\ train_dataloader >= 1)
    => /\ g_optimizer
            = Passes * Ceil(train_dataloader, config.iters_to_accumulate)
       /\ d_optimizer
            = Passes * Ceil(train_dataloader, config.iters_to_accumulate)
       /\ scaler = g_optimizer
       /\ g_model.grad = 0
       /\ d_model.grad = 0

\* C4: with early stopping enabled and patience P >= 1, the session ends
\* at the first epoch that completes P consecutive epochs whose generator
\* validation loss is above the best so far (or at n_epochs if there is
\* none), and the remaining patience is P minus the length of the current
\* run of such epochs.
C4_StopsAfterPatience ==
    (SessionOverInDir /\ config.early_stop /\ config.patience >= 1)
    => /\ patience = config.patience - TrailingWorse(Len(records))
       /\ \/ Len(records) = config.n_epochs
          \/ TrailingWorse(Len(records)) = config.patience
       /\ \A k \in 1..(Len(records) - 1) :
             TrailingWorse(k) < config.patience

\* C5: a session that has ended is in a terminal state of
\* Idle -> Running -> {Completed | EarlyStopped}: it wrote its records
\* (pc = "done"), it ran fewer than n_epochs epochs only with early
\* stopping enabled and the patience at zero, and with early stopping
\* disabled it ran exactly n_epochs epochs.
C5_TerminalStates ==
    SessionOverInDir
    => /\ pc = "done"
       /\ Len(records) < config.n_epochs
          => (config.early_stop /\ patience = 0)
       /\ ~config.early_stop => Len(records) = config.n_epochs

\* C6: the record list is not written while epochs are running, and when
\* the session has ended it has been written exactly once, holding the
\* records of the executed epochs 1..k in order.
C6_RecordsWrittenOnce ==
    /\ (entry = "train" /\ pc \notin {"done", "raised"})
       => record_path = <<>>
    /\ SessionOverInDir
       => /\ record_path = <<records>>
          /\ Len(records) = epoch
          /\ \A k \in 1..Len(records) : records[k]["epoch"] = k

\* C8: for every epoch the session executed, each model's scheduler was
\* stepped exactly once, with that model's own validation loss of that
\* epoch.
C8_SchedulersStepped ==
    SessionOverInDir
    => /\ Len(g_scheduler) = epoch
       /\ Len(d_scheduler) = epoch
       /\ Len(records) = epoch
       /\ \A k \in 1..epoch :
             /\ g_scheduler[k] = records[k]["g_valid_loss"]
             /\ d_scheduler[k] = records[k]["d_valid_loss"]

\* C9: in every executed epoch each model is checkpointed exactly on its
\* own improvement, whatever the other model's loss did: the discriminator
\* also where the generator did not improve, and the generator's best loss
\* is a loss of the generator, the discriminator's one of the discriminator.
C9_IndependentDecisions ==
    SessionOverInDir
    => \A k \in 1..epoch :
          /\ k \in 1..Len(records)
          /\ (k \in Range(d_ckpt)) = Improved("d_valid_loss", k)
          /\ (k \in Range(g_ckpt)) = Improved("g_valid_loss", k)
          /\ g_best_loss \in {records[j]["g_valid_loss"] : j \in 1..Len(records)}
          /\ d_best_loss \in {records[j]["d_valid_loss"] : j \in 1..Len(records)}

\* C10: every training batch's losses are computed with both models in
\* training mode and every validation batch's with both in evaluation mode;
\* a validation pass computes the losses of all its batches and leaves the
\* accumulated gradients, the optimizers and the scale factor as they were.
C10_ValidationFrame ==
    /\ \A i \in 1..Len(get_losses_calls) :
          LET c == get_losses_calls[i]
          IN  IF c.caller = "train_epoch"
              THEN c.g_training /\ c.d_training
              ELSE ~c.g_training /\ ~c.d_training
    /\ ValidEpochOver
       => /\ Len(get_losses_calls) = valid_dataloader
          /\ ~g_model.training /\ ~d_model.training
          /\ g_model.grad = 0 /\ d_model.grad = 0
          /\ g_optimizer = 0 /\ d_optimizer = 0 /\ scaler = 0

\* ------------------------------------------ reading the state, continued
\* the sum of the losses under `key` that get_losses returned to the pass
RECURSIVE SumOf(_, _)
SumOf(key, n) ==
    IF n = 0 THEN 0 ELSE get_losses_calls[n][key] + SumOf(key, n - 1)

\* a batch of the pass had the degenerate generator loss -log(0) = inf
DegenerateBatch ==
    \E i \in 1..Len(get_losses_calls) : get_losses_calls[i]["g_loss"] = Inf

\* train() is inside the body of an epoch (or left it by an exception)
InEpoch ==
    \/ pc \in {"train_epoch", "te_for", "te_backward", "te_return"}
    \/ pc = "raised" /\ error.line \in PassLines

\* a record without the uttr or the resp field
Malformed(rec) == ~({"uttr", "resp"} \subseteq rec)

\* C11: a pass of train_epoch over T >= 1 batches returns, for each model,
\* the sum of the T per-batch losses of get_losses divided by T and rounded.
C11_EpochAverage ==
    (entry = "train_epoch" /\ TrainEpochOver /\ train_dataloader >= 1)
    => /\ pc = "te_return"
       /\ Len(get_losses_calls) = train_dataloader
       /\ g_epoch_loss = Round3(SumOf("g_loss", train_dataloader),
                                train_dataloader)
       /\ d_epoch_loss = Round3(SumOf("d_loss", train_dataloader),
                                train_dataloader)

\* C12: before the shuffle the 2B labels are B fake (0), on the generated
\* responses, and B real (1), on the ground-truth responses; after it the
\* rows are the same 2B rows, each still with its own mask and its own
\* label.
C12_LabelsAndShuffle ==
    LET n == 2 * batch_size
        rows == ({"pred", "resp"} \X (1..batch_size))
        labelled ==
            /\ Len(d_ids) = n /\ Len(d_masks) = n /\ Len(d_labels) = n
            /\ Cardinality({i \in 1..n : d_labels[i] = 0}) = batch_size
            /\ Cardinality({i \in 1..n : d_labels[i] = 1}) = batch_size
            /\ \A i \in 1..n :
                  /\ d_labels[i] = (IF d_ids[i][1] = "pred" THEN 0 ELSE 1)
                  /\ d_masks[i] = d_ids[i]
            /\ \A r \in rows :
                  Cardinality({i \in 1..n : d_ids[i] = r}) = 1
    IN  /\ pc = "gl_shuffle"
           => /\ labelled
              /\ \A i \in 1..n : d_labels[i] = (IF i <= batch_size THEN 0 ELSE 1)
        /\ pc \in {"gl_forward", "gl_return"} => labelled

\* C12 witness: a batch of two pairs went through get_losses with a
\* permutation that moved the first row
C12_Witness ==
    /\ pc = "gl_return"
    /\ batch_size = 2
    /\ d_indice[1] # 1
    /\ d_labels # <<0, 0, 1, 1>>

\* C13: when a batch has the degenerate generator loss, get_losses returns
\* inf for it and the pass goes on: all T batches are processed, each model
\* takes its ceil(T/N) steps, and the pass returns.
C13_DegenerateBatchGoesOn ==
    /\ (pc = "gl_return" /\ \A i \in d_outs.above : d_labels[i] = 0)
       => losses[1] = Inf
    /\ (entry = "train_epoch" /\ TrainEpochOver /\ DegenerateBatch)
       => /\ pc = "te_return"
          /\ Len(get_losses_calls) = train_dataloader
          /\ g_optimizer = Ceil(train_dataloader, config.iters_to_accumulate)
          /\ d_optimizer = Ceil(train_dataloader, config.iters_to_accumulate)

\* C14: the generator loss that get_losses returns, and the one that is
\* handed to backward for a batch, is finite.
C14_LossClamped ==
    /\ pc = "gl_return" => losses[1] < Inf
    /\ pc = "te_backward" => g_loss.num < Inf

\* C16: when the data holds a record without uttr or resp, loading fails
\* while the Dataset is constructed, and __getitem__ never raises.
C16_FailFastAtLoad ==
    /\ (entry = "load_dataloader" /\ pc # "idle"
          /\ \E i \in 1..Len(data) : Malformed(data[i]))
       => (pc = "raised" /\ error.line \in 7..35)
    /\ entry = "load_dataloader" => ~(pc = "raised" /\ error.line \in 42..52)

\* C17: when the session has ended, every epoch it executed has its record
\* and its three summary lines printed, and nothing else was printed.
C17_SummaryEveryEpoch ==
    SessionOverInDir
    => /\ Len(records) = epoch
       /\ Len(stdout) = 3 * epoch
       /\ \A i \in 1..Len(stdout) : stdout[i] = ((i - 1) % 3) + 1

\* C18: with early stopping enabled the remaining patience is in 0..P and
\* no epoch is running while it is 0.
C18_PatienceBounds ==
    (entry = "train" /\ pc # "idle" /\ config.early_stop)
    => /\ patience \in 0..config.patience
       /\ patience = 0 => ~InEpoch

\* C20: a record built from record_keys has every field that is read from
\* it: print_epoch prints its three lines and returns, and the keys train()
\* reads are record keys.
C20_RecordFields ==
    (entry = "print_epoch" /\ record_dict = record_keys
       /\ pc \in {"pe_return", "raised"})
    => /\ pc = "pe_return"
       /\ Len(stdout) = 3
       /\ train_reads \subseteq record_dict

====
